---- MODULE Spec2Model ----
(***************************************************************************)
(* Research Scholar Agent: the research pipeline (research.py), the text   *)
(* utilities (utils/text.py), the data model (schemas.py) and the LLM      *)
(* provider factory (llm/providers.py) as a state machine.                 *)
(*                                                                         *)
(* Representation.  A Python str is a sequence of one-character strings,   *)
(* so that lower(), strip(), the regular-expression substitutions and      *)
(* split() are computed character by character.  An Optional value is a    *)
(* sequence of length 0 (None) or 1 (the value).                           *)
(***************************************************************************)
EXTENDS Integers, Sequences, FiniteSets, TLC

VARIABLES
    pc,              \* position of the run_research coroutine
    settings,        \* the cached AppSettings and the optional openai package
    query,           \* run_research argument
    top_k,           \* run_research argument (Optional[int])
    provider_choice, \* run_research argument (Optional[str])
    arxiv,           \* the search_arxiv task: its fate and its state
    crossref,        \* the search_crossref task: its fate and its state
    all_papers,      \* retrieve_sources' result
    unique,          \* deduplicate_papers' result
    selected,        \* the selection handed to synthesize_report
    attempts,        \* provider constructions attempted, in order
    llm,             \* the provider get_default_llm_provider returned
    genCalls,        \* number of generate calls made
    failure,         \* what synthesize_report's except clause caught
    text,            \* the report text synthesize_report returned
    response         \* what run_research returned

vars == <<pc, settings, query, top_k, provider_choice, arxiv, crossref,
          all_papers, unique, selected, attempts, llm, genCalls, failure,
          text, response>>

(***************************************************************************)
(* Bounds of the model.                                                    *)
(***************************************************************************)
\* longest result list one source returns in the pipeline specification
MaxResults == 2
\* longest paper list handed to deduplicate_papers / rank_and_select
MaxPapers == 3
\* largest top_k a caller passes
MaxTopK == 2

(***************************************************************************)
(* Optional values and sequences.                                          *)
(***************************************************************************)
None == <<>>
Some(x) == <<x>>
\* Python truthiness of an Optional[str] / Optional[int]: None, "" and 0 are falsy
TruthyStr(o) == o # None /\ o[1] # <<>>
TruthyInt(o) == o # None /\ o[1] # 0
\* the same for a string kept as a TLA+ string (see Inputs)
TruthyText(o) == o # None /\ o[1] # ""

\* F applied to the value of e.  An operator's argument is an expression that
\* is evaluated again at each use in the operator's body; Eval evaluates it
\* once, which keeps nested and recursive calls linear.
Eval(e, F(_)) == CHOOSE r \in {F(v) : v \in {e}} : TRUE

Range(s) == Eval(s, LAMBDA v : {v[i] : i \in 1..Len(v)})
Reverse(s) == Eval(s, LAMBDA v : [i \in 1..Len(v) |-> v[Len(v) + 1 - i]])
Max(a, b) == IF a >= b THEN a ELSE b
Min(a, b) == IF a <= b THEN a ELSE b

\* Python slice s[:k] for any integer k (a negative k counts from the end)
SliceTo(s, k) ==
    Eval(s, LAMBDA v : SubSeq(v, 1, IF k >= 0 THEN Min(k, Len(v)) ELSE Max(Len(v) + k, 0)))

\* all sequences over S of length at most n
SeqsUpTo(S, n) == UNION {[1..k -> S] : k \in 0..n}

\* the sequences of SeqsUpTo(S, n) without a repeated element
InjSeqsUpTo(S, n) == {s \in SeqsUpTo(S, n) : \A i, j \in 1..Len(s) : s[i] = s[j] => i = j}

(***************************************************************************)
(* utils/text.py                                                           *)
(***************************************************************************)
UpperChars == <<"A","B","C","D","E","F","G","H","I","J","K","L","M",
                "N","O","P","Q","R","S","T","U","V","W","X","Y","Z">>
LowerChars == <<"a","b","c","d","e","f","g","h","i","j","k","l","m",
                "n","o","p","q","r","s","t","u","v","w","x","y","z">>
DigitChars == <<"0","1","2","3","4","5","6","7","8","9">>
WhitespaceChars == {" ", "\t", "\n"}

LowerChar(c) ==
    IF \E i \in 1..Len(UpperChars) : UpperChars[i] = c
    THEN LowerChars[CHOOSE i \in 1..Len(UpperChars) : UpperChars[i] = c]
    ELSE c

\* str.lower()
Lower(s) == Eval(s, LAMBDA v : [i \in 1..Len(v) |-> LowerChar(v[i])])

RECURSIVE LStrip(_)
LStrip(s) ==
    Eval(s, LAMBDA v : IF v # <<>> /\ Head(v) \in WhitespaceChars THEN LStrip(Tail(v)) ELSE v)

\* str.strip()
Strip(s) == Reverse(LStrip(Reverse(LStrip(s))))

\* _PUNCT_RE.sub(" ", text): every character outside [a-z0-9\s] becomes a space
PunctSub(s) ==
    Eval(s, LAMBDA v :
        [i \in 1..Len(v) |->
            IF v[i] \in Range(LowerChars) \cup Range(DigitChars) \cup WhitespaceChars
            THEN v[i] ELSE " "])

\* _WS_RE.sub(" ", text): every maximal run of whitespace becomes one space
RECURSIVE WsSub(_)
WsSub(s) ==
    Eval(s, LAMBDA v :
        IF v = <<>> THEN <<>>
        ELSE IF Head(v) \in WhitespaceChars
             THEN <<" ">> \o WsSub(LStrip(v))
             ELSE <<Head(v)>> \o WsSub(Tail(v)))

normalize_title(s) == Strip(WsSub(PunctSub(Lower(s))))

\* str.split(" "): the pieces between single spaces, empty pieces included
RECURSIVE SplitSpace(_, _)
SplitSpace(s, cur) ==
    Eval(s, LAMBDA v :
        IF v = <<>> THEN <<cur>>
        ELSE IF Head(v) = " "
             THEN <<cur>> \o SplitSpace(Tail(v), <<>>)
             ELSE SplitSpace(Tail(v), Append(cur, Head(v))))

tokenize(s) == {t \in Range(SplitSpace(normalize_title(s), <<>>)) : t # <<>>}

\* jaccard_similarity >= 0.9, the only use the pipeline makes of it; the
\* quotient inter / union is compared as 10 * inter >= 9 * union
jaccard_at_least_09(a, b) ==
    IF a = {} /\ b = {} THEN TRUE
    ELSE IF a = {} \/ b = {} THEN FALSE
    ELSE 10 * Cardinality(a \cap b) >= 9 * Cardinality(a \cup b)

(***************************************************************************)
(* schemas.py                                                              *)
(***************************************************************************)
\* a raw record as a source client returns it (a dict); title is Optional so
\* that a record without a title can be stated
RawItem(source, id, title, abstract, authors, year, url, pdf_url, doi) ==
    [source |-> source, id |-> id, title |-> title, abstract |-> abstract,
     authors |-> authors, year |-> year, url |-> url, pdf_url |-> pdf_url,
     doi |-> doi, venue |-> None]

\* Paper(**item) raises a validation error exactly when the required title is missing
PaperValid(item) == item.title # None

\* Paper(**item) for a valid item
Paper(item) == [item EXCEPT !.title = item.title[1]]

Citation(index, title, authors, year, doi, url, source) ==
    [index |-> index, title |-> title, authors |-> authors, year |-> year,
     doi |-> doi, url |-> url, source |-> source]

ResearchResponse(q, report, citations, n, sel) ==
    [query |-> q, report_markdown |-> report, citations |-> citations,
     num_sources |-> n, selected |-> sel]

(***************************************************************************)
(* config.py                                                               *)
(***************************************************************************)
top_k_synthesis == 10

(***************************************************************************)
(* research.py: the pure stages                                            *)
(***************************************************************************)
\* retrieve_sources, lines 21-31: the papers of one gathered result; an
\* exception contributes nothing, an invalid record is skipped
RECURSIVE ValidPapers(_)
ValidPapers(items) ==
    Eval(items, LAMBDA v :
        IF v = <<>> THEN <<>>
        ELSE IF PaperValid(Head(v))
             THEN <<Paper(Head(v))>> \o ValidPapers(Tail(v))
             ELSE ValidPapers(Tail(v)))

PapersOfResult(res) == IF res.kind = "error" THEN <<>> ELSE ValidPapers(res.items)

RECURSIVE CollectResults(_)
CollectResults(results) ==
    IF results = <<>> THEN <<>>
    ELSE PapersOfResult(Head(results)) \o CollectResults(Tail(results))

\* p.doi.lower().strip()
DoiKey(p) == Strip(Lower(p.doi[1]))

\* line 46: the later paper replaces the kept one
ReplacesSameLength(p, existing) == Len(p.abstract) >= Len(existing.abstract)
Replaces(p, existing) == Len(p.abstract) > Len(existing.abstract)

\* lines 36-49: seen_by_doi as the list of its (key, paper) items in insertion
\* order (a dict keeps a replaced key at its first position), and without_doi
RECURSIVE DoiPhase(_, _, _)
DoiPhase(papers, seen_by_doi, without_doi) ==
    Eval(<<papers, seen_by_doi, without_doi>>, LAMBDA v :
        IF v[1] = <<>> THEN [seen |-> v[2], without |-> v[3]]
        ELSE Eval(Head(v[1]), LAMBDA p :
             IF TruthyStr(p.doi)
             THEN Eval(DoiKey(p), LAMBDA key :
                  IF \A i \in 1..Len(v[2]) : v[2][i].key # key
                  THEN DoiPhase(Tail(v[1]), Append(v[2], [key |-> key, paper |-> p]), v[3])
                  ELSE Eval(CHOOSE j \in 1..Len(v[2]) : v[2][j].key = key, LAMBDA i :
                       IF Replaces(p, v[2][i].paper)
                       THEN DoiPhase(Tail(v[1]), [v[2] EXCEPT ![i].paper = p], v[3])
                       ELSE DoiPhase(Tail(v[1]), v[2], v[3])))
             ELSE DoiPhase(Tail(v[1]), v[2], Append(v[3], p))))

\* lines 52-60: a DOI-less paper is a duplicate when its title tokens are
\* similar to those of any DOI-less paper before it in without_doi
IsTitleDup(without_doi, i) ==
    \E j \in 1..(i - 1) :
        jaccard_at_least_09(tokenize(without_doi[i].title), tokenize(without_doi[j].title))

RECURSIVE TitlePhase(_, _, _)
TitlePhase(without_doi, i, kept) ==
    Eval(kept, LAMBDA v :
        IF i > Len(without_doi) THEN v
        ELSE TitlePhase(without_doi, i + 1,
                        IF IsTitleDup(without_doi, i) THEN v
                        ELSE Append(v, without_doi[i])))

deduplicate_papers(papers) ==
    Eval(DoiPhase(papers, <<>>, <<>>), LAMBDA d :
        TitlePhase(d.without, 1, [i \in 1..Len(d.seen) |-> d.seen[i].paper]))

\* round(10^6 * exp(-0.3 * r)) for r = 0..12
ExpTable == <<1000000, 740818, 548812, 406570, 301194, 223130, 165299,
              122456, 90718, 67206, 49787, 36883, 27324>>

\* score_paper in units of 1 / (160 * 10^6):
\*   160 * score = 120 * (1 - exp(-0.3 * relevance)) + (clamp(year) - 1990)
score_paper(q, paper) ==
    Eval(tokenize(q), LAMBDA q_tokens :
        LET match_title == Cardinality(q_tokens \cap tokenize(paper.title))
            match_abs == Cardinality(q_tokens \cap tokenize(paper.abstract))
            relevance == match_title * 2 + match_abs * 1
            year == IF TruthyInt(paper.year) THEN paper.year[1] ELSE 1990
            recency == Max(Min(year, 2030), 1990) - 1990
        IN  120 * (1000000 - ExpTable[relevance + 1]) + 1000000 * recency)

\* insertion of x after every element whose key is <= its own (the stable,
\* ascending insertion list.sort performs on short lists)
RECURSIVE InsertAsc(_, _)
InsertAsc(sorted, x) ==
    Eval(sorted, LAMBDA v :
        IF v = <<>> THEN <<x>>
        ELSE IF Head(v).score <= x.score
             THEN <<Head(v)>> \o InsertAsc(Tail(v), x)
             ELSE <<x>> \o v)

RECURSIVE SortAsc(_)
SortAsc(s) ==
    Eval(s, LAMBDA v :
        IF v = <<>> THEN <<>> ELSE InsertAsc(SortAsc(SubSeq(v, 1, Len(v) - 1)), v[Len(v)]))

\* scored.sort(key=..., reverse=True): list.sort reverses the list, sorts it
\* ascending and stably, and reverses it again, which keeps ties in input order
SortReverse(scored) == Reverse(SortAsc(Reverse(scored)))

rank_and_select(q, papers, k) ==
    LET scored == [i \in 1..Len(papers) |-> [score |-> score_paper(q, papers[i]), paper |-> papers[i]]]
    IN  Eval(SliceTo(SortReverse(scored), k), LAMBDA top : [i \in 1..Len(top) |-> top[i].paper])

\* p.url or (p.pdf_url or "")
CitationUrl(p) == IF p.url # "" THEN p.url ELSE IF TruthyText(p.pdf_url) THEN p.pdf_url[1] ELSE ""

\* enumerate(selected) without start=1
build_citations_from_zero(sel) ==
    [i \in 1..Len(sel) |->
        Citation(i - 1, sel[i].title, sel[i].authors, sel[i].year, sel[i].doi,
                 CitationUrl(sel[i]), sel[i].source)]
build_citations(sel) ==
    [i \in 1..Len(sel) |->
        Citation(i, sel[i].title, sel[i].authors, sel[i].year, sel[i].doi,
                 CitationUrl(sel[i]), sel[i].source)]

\* the reference line both synthesize_fallback and build_synthesis_messages format
ReferenceLine(c) ==
    <<c.index, c.title,
      IF c.authors # <<>> THEN Some(c.authors) ELSE None,
      IF TruthyInt(c.year) THEN c.year ELSE None,
      IF TruthyStr(c.doi) THEN c.doi ELSE None,
      c.url>>

\* synthesize_fallback: the list `lines` that "\n".join turns into the report;
\* a line is the tuple of the parts its f-string formats
BackgroundLine(p, idx) ==
    Eval(Strip(IF p.abstract # <<>> THEN p.abstract ELSE p.title), LAMBDA snippet :
        <<"- ", p.title, idx, SliceTo(snippet, 600), IF Len(snippet) > 600 THEN "..." ELSE "">>)

synthesize_fallback(q, sel) ==
    Eval(<<build_citations(sel), SliceTo(sel, Max(3, Len(sel) \div 3)), SliceTo(sel, 5)>>,
         LAMBDA v :
        <<  <<"# ", q>>, <<"## Executive Summary">>,
            IF sel # <<>> THEN <<"This report summarizes key findings">>
                          ELSE <<"No sources were retrieved">>,
            <<"## Background & Related Work">> >>
        \o [i \in 1..Len(v[2]) |-> BackgroundLine(v[2][i], i)]
        \o << <<"## Key Findings & Themes">> >>
        \o [i \in 1..Len(v[3]) |-> <<"- Finding linked to ", i>>]
        \o << <<"## Limitations & Risks">>,
              <<"- This non-LLM fallback uses abstracts">>,
              <<"## References">> >>
        \o [i \in 1..Len(v[1]) |-> ReferenceLine(v[1][i])])

(***************************************************************************)
(* llm/providers.py                                                        *)
(***************************************************************************)
NameOpenAI == <<"o","p","e","n","a","i">>
NameTogether == <<"t","o","g","e","t","h","e","r">>
NameOllama == <<"o","l","l","a","m","a">>

\* whether a provider's __init__ returns (TRUE) or raises RuntimeError (FALSE)
Constructs(variant, st) ==
    CASE variant = "openai" -> TruthyText(st.openai_api_key) /\ st.openai_package
      [] variant = "together" -> TruthyText(st.together_api_key)
      [] variant = "ollama" -> TRUE

\* the auto-detect chain, lines 122-131: each variant is attempted in order
\* until one constructs; the last one, OllamaProvider(), is not guarded
AutoDetectOrderTogetherFirst == <<"together", "openai", "ollama">>
AutoDetectOrder == <<"openai", "together", "ollama">>

RECURSIVE AutoDetect(_, _, _)
AutoDetect(order, st, tried) ==
    Eval(<<order, tried>>, LAMBDA o :
        LET v == Head(o[1]) IN
        IF Constructs(v, st) THEN [attempts |-> Append(o[2], v), provider |-> Some(v)]
        ELSE IF Len(o[1]) = 1 THEN [attempts |-> Append(o[2], v), provider |-> None]
        ELSE AutoDetect(Tail(o[1]), st, Append(o[2], v)))

\* lines 116-121 when the named variant's constructor raises: a factory that
\* went on to the auto-detect chain instead of letting the error propagate
ExplicitFallsBack(variant, st) ==
    IF Constructs(variant, st) THEN [attempts |-> <<variant>>, provider |-> Some(variant)]
    ELSE AutoDetect(AutoDetectOrder, st, <<variant>>)
\* lines 116-121: return Variant(); provider = None stands for the raised error
Explicit(variant, st) ==
    [attempts |-> <<variant>>,
     provider |-> IF Constructs(variant, st) THEN Some(variant) ELSE None]

\* a resolution that looked behind a preferred name it does not recognise, at
\* the configured default
ResolvedChoiceDefaultBehindUnknown(preferred, st) ==
    IF TruthyStr(preferred)
       /\ Lower(preferred[1]) \in {NameOpenAI, NameTogether, NameOllama}
    THEN preferred
    ELSE st.default_llm_provider
\* line 113: preferred or settings.default_llm_provider
ResolvedChoice(preferred, st) ==
    IF TruthyStr(preferred) THEN preferred ELSE st.default_llm_provider

get_default_llm_provider(preferred, st) ==
    LET choice == ResolvedChoice(preferred, st)
        name == IF TruthyStr(choice) THEN Lower(choice[1]) ELSE <<>>
    IN  IF TruthyStr(choice) /\ name = NameOpenAI THEN Explicit("openai", st)
        ELSE IF TruthyStr(choice) /\ name = NameTogether THEN Explicit("together", st)
        ELSE IF TruthyStr(choice) /\ name = NameOllama THEN Explicit("ollama", st)
        ELSE AutoDetect(AutoDetectOrder, st, <<>>)

(***************************************************************************)
(* research.py: exceptions                                                 *)
(***************************************************************************)
\* what a network call (a source query, generate) can raise: an HTTP status
\* error, a timeout, a malformed body
NetworkErrors == {"HTTPStatusError", "TimeoutException", "KeyError"}

\* asyncio.gather(..., return_exceptions=True) completes when every task has
\* completed; without return_exceptions it completes on the first exception
GatherCompleteFailFast(a, c) ==
    \/ a.state = "done" /\ c.state = "done"
    \/ a.state = "done" /\ a.result.kind = "error"
    \/ c.state = "done" /\ c.result.kind = "error"
GatherComplete(a, c) == a.state = "done" /\ c.state = "done"

\* synthesize_report line 175: except Exception
CatchesRuntimeErrorOnly(exc) == exc = "RuntimeError"
Catches(exc) == exc \in NetworkErrors \cup {"RuntimeError"}

(***************************************************************************)
(* Inputs.  Strings the program only copies or tests for emptiness (source *)
(* tags, ids, urls, author names, credentials) stay TLA+ strings.          *)
(***************************************************************************)
\* the research question "g n"
Queries == { <<"g", " ", "n">> }

\* records the arXiv client can return in the pipeline specification
ArxivItems ==
    { RawItem("arxiv", Some("a1"), Some(<<"G", " ", "n">>), <<"g">>, <<"Ann", "Bo">>,
              Some(2020), "http://a1", Some("a1.pdf"), Some(<<"1", "0", "/", "A">>)),
      RawItem("arxiv", Some("a2"), None, <<"n">>, <<>>, None, "http://a2", None, None),
      RawItem("arxiv", Some("a3"), Some(<<"n">>), <<>>, <<>>, None, "", Some("a3.pdf"), None) }

\* records the Crossref client can return in the pipeline specification
CrossrefItems ==
    { RawItem("crossref", Some("10/a"), Some(<<"G", "-", "N">>), <<"g", " ", "n">>, <<"Cy">>,
              Some(2020), "", None, Some(<<"1", "0", "/", "a", " ">>)),
      RawItem("crossref", Some("x2"), Some(<<"z">>), <<>>, <<>>, Some(1800), "http://x2",
              None, None) }

\* what a source query can end with: an exception, or a list of records
SourceResults(items) ==
    {[kind |-> "error", exc |-> e, items |-> <<>>] : e \in NetworkErrors}
    \cup {[kind |-> "ok", exc |-> "", items |-> l] : l \in InjSeqsUpTo(items, MaxResults)}

Pending == [state |-> "pending", result |-> [kind |-> "pending", exc |-> "", items |-> <<>>]]
Unstarted == [state |-> "unstarted", result |-> [kind |-> "pending", exc |-> "", items |-> <<>>]]
Done(res) == [state |-> "done", result |-> res]

\* top_k as a caller passes it: absent, or any small integer
TopKs == {None} \cup {Some(k) : k \in (-MaxTopK)..MaxTopK}

NameOpenAIMixed == <<"O","p","e","n","A","I">>
NameOllamaUpper == <<"O","L","L","A","M","A">>
NameUnknown == <<"g","p","t">>

PipelineChoices == {None, Some(NameOpenAIMixed)}
PipelineSettings ==
    [default_llm_provider : {None, Some(NameTogether)},
     openai_api_key : {None, Some("sk")},
     together_api_key : {None, Some("tk")},
     openai_package : {TRUE}]

\* the texts a successful generate call returns: "" (OpenAIProvider's
\* `content or ""`, OllamaProvider's `.get("content", "")` and `return ""`),
\* or a report
LlmTexts == { <<>>, << <<"LLM report">> >> }

\* what generate can raise
GenerateErrors == NetworkErrors

(***************************************************************************)
(* run_research as a state machine                                         *)
(***************************************************************************)
InitWith(settingsSet, choices, topKs) ==
    /\ pc = "start"
    /\ settings \in settingsSet
    /\ query \in Queries
    /\ top_k \in topKs
    /\ provider_choice \in choices
    /\ arxiv = Unstarted
    /\ crossref = Unstarted
    /\ all_papers = <<>>
    /\ unique = <<>>
    /\ selected = <<>>
    /\ attempts = <<>>
    /\ llm = None
    /\ genCalls = 0
    /\ failure = None
    /\ text = None
    /\ response = None

\* top_k in the pipeline specification: absent, negative, positive
PipelineTopKs == {None, Some(-1), Some(1)}

Init == InitWith(PipelineSettings, PipelineChoices, PipelineTopKs)

\* lines 181-184 and 18-20: the two coroutines are created and gathered
Start ==
    /\ pc = "start"
    /\ pc' = "gather"
    /\ arxiv' = Pending
    /\ crossref' = Pending
    /\ UNCHANGED <<settings, query, top_k, provider_choice, all_papers, unique,
                   selected, attempts, llm, genCalls, failure, text, response>>

\* search_arxiv completes: it returns its records or raises
ArxivCompletes ==
    /\ arxiv.state = "pending"
    /\ \E res \in SourceResults(ArxivItems) : arxiv' = Done(res)
    /\ UNCHANGED <<pc, settings, query, top_k, provider_choice, crossref, all_papers, unique,
                   selected, attempts, llm, genCalls, failure, text, response>>

\* search_crossref completes: it returns its records or raises
CrossrefCompletes ==
    /\ crossref.state = "pending"
    /\ \E res \in SourceResults(CrossrefItems) : crossref' = Done(res)
    /\ UNCHANGED <<pc, settings, query, top_k, provider_choice, arxiv, all_papers, unique,
                   selected, attempts, llm, genCalls, failure, text, response>>

\* lines 20-31: gather returns [arxiv result, crossref result]; the papers are
\* collected in that order
Gather ==
    /\ pc = "gather"
    /\ GatherComplete(arxiv, crossref)
    /\ all_papers' = CollectResults(<<arxiv.result, crossref.result>>)
    /\ pc' = "retrieved"
    /\ UNCHANGED <<settings, query, top_k, provider_choice, arxiv, crossref, unique,
                   selected, attempts, llm, genCalls, failure, text, response>>

\* lines 185-187: nothing retrieved, synthesize with selected=[]
NoPapers ==
    /\ pc = "retrieved"
    /\ all_papers = <<>>
    /\ selected' = <<>>
    /\ pc' = "synthesize"
    /\ UNCHANGED <<settings, query, top_k, provider_choice, arxiv, crossref,
                   all_papers, unique, attempts, llm, genCalls, failure, text, response>>

\* line 189
Deduplicate ==
    /\ pc = "retrieved"
    /\ all_papers # <<>>
    /\ unique' = deduplicate_papers(all_papers)
    /\ pc' = "rank"
    /\ UNCHANGED <<settings, query, top_k, provider_choice, arxiv, crossref,
                   all_papers, selected, attempts, llm, genCalls, failure, text, response>>

\* line 183: top_k or settings.top_k_synthesis
top_k_effective == IF TruthyInt(top_k) THEN top_k[1] ELSE top_k_synthesis

\* line 190
RankAndSelect ==
    /\ pc = "rank"
    /\ selected' = rank_and_select(query, unique, top_k_effective)
    /\ pc' = "synthesize"
    /\ UNCHANGED <<settings, query, top_k, provider_choice, arxiv, crossref,
                   all_papers, unique, attempts, llm, genCalls, failure, text, response>>

\* synthesize_report's except clause, lines 175-177: a caught exception yields
\* the fallback report, any other propagates out of run_research
RecoveryTextNoSelection(q, sel) == synthesize_fallback(q, <<>>)
RecoveryText(q, sel) == synthesize_fallback(q, sel)

Handle(stage, exc) ==
    /\ failure' = Some([stage |-> stage, exc |-> exc])
    /\ IF Catches(exc)
       THEN text' = Some(RecoveryText(query, selected)) /\ pc' = "respond"
       ELSE text' = text /\ pc' = "raised"

\* lines 171-174: the factory is called; its error goes to the except clause,
\* otherwise generate is called on the provider it returned
SynthesizeStart ==
    /\ pc = "synthesize"
    /\ LET f == get_default_llm_provider(provider_choice, settings) IN
       /\ attempts' = f.attempts
       /\ llm' = f.provider
       /\ IF f.provider = None
          THEN Handle("construction", "RuntimeError") /\ genCalls' = genCalls
          ELSE /\ genCalls' = genCalls + 1
               /\ pc' = "generating"
               /\ UNCHANGED <<failure, text>>
    /\ UNCHANGED <<settings, query, top_k, provider_choice, arxiv, crossref,
                   all_papers, unique, selected, response>>

\* line 174: generate returns a text
GenerateReturns ==
    /\ pc = "generating"
    /\ \E t \in LlmTexts : text' = Some(t)
    /\ pc' = "respond"
    /\ UNCHANGED <<settings, query, top_k, provider_choice, arxiv, crossref,
                   all_papers, unique, selected, attempts, llm, genCalls, failure, response>>

\* line 174: generate raises
GenerateRaises ==
    /\ pc = "generating"
    /\ \E e \in GenerateErrors : Handle("generation", e)
    /\ UNCHANGED <<settings, query, top_k, provider_choice, arxiv, crossref,
                   all_papers, unique, selected, attempts, llm, genCalls, response>>

\* lines 188 and 192: the response of the empty path and of the full path
Respond ==
    /\ pc = "respond"
    /\ response' = Some(IF all_papers = <<>>
                        THEN ResearchResponse(query, text[1], <<>>, 0, <<>>)
                        ELSE ResearchResponse(query, text[1], build_citations(selected),
                                              Len(selected), selected))
    /\ pc' = "returned"
    /\ UNCHANGED <<settings, query, top_k, provider_choice, arxiv, crossref,
                   all_papers, unique, selected, attempts, llm, genCalls, failure, text>>

Next ==
    \/ Start
    \/ ArxivCompletes
    \/ CrossrefCompletes
    \/ Gather
    \/ NoPapers
    \/ Deduplicate
    \/ RankAndSelect
    \/ SynthesizeStart
    \/ GenerateReturns
    \/ GenerateRaises
    \/ Respond

Spec == Init /\ [][Next]_vars

\* the event loop runs every ready coroutine, and every network call ends
\* (with its answer, an error, or its 30 s / 60 s timeout)
FairSpec == Spec /\ WF_vars(Next)

(***************************************************************************)
(* deduplicate_papers and rank_and_select on lists of papers: the          *)
(* pipeline from the point where retrieve_sources has returned, arXiv      *)
(* having returned the list.                                               *)
(***************************************************************************)
RichItem(id, title, abstract, year, doi) ==
    RawItem("arxiv", Some(id), Some(title), abstract, <<>>, year, "", None, doi)

RichItems ==
    { \* three papers under the DOI key "10/a": abstracts of length 1, 3, 3
      RichItem("r1", <<"G", " ", "x">>, <<"g">>, Some(2020), Some(<<"1", "0", "/", "A">>)),
      RichItem("r2", <<"G", " ", "y">>, <<"n", " ", "b">>, Some(2020),
               Some(<<" ", "1", "0", "/", "a", " ">>)),
      RichItem("r3", <<"g", " ", "q">>, <<"b", " ", "n">>, Some(2020),
               Some(<<"1", "0", "/", "a">>)),
      \* another DOI key, no abstract, no year
      RichItem("r4", <<"n">>, <<>>, None, Some(<<"1", "0", "/", "b">>)),
      \* without DOI (None and ""), the same title tokens, years clamped to 2030
      RichItem("r5", <<"G", "-", "N", "!">>, <<>>, Some(2031), None),
      RichItem("r6", <<"g", " ", " ", "n">>, <<>>, Some(2030), Some(<<>>)),
      \* without DOI, no query token, recency 0: equal scores
      RichItem("r7", <<"z">>, <<>>, None, None),
      RichItem("r8", <<"Q">>, <<>>, Some(1800), None) }

FnInitWith(items, topKs) ==
    /\ pc = "retrieved"
    /\ settings \in {s \in PipelineSettings : s.default_llm_provider = None
                        /\ s.openai_api_key = None /\ s.together_api_key = None}
    /\ query \in Queries
    /\ top_k \in topKs
    /\ provider_choice = None
    /\ \E l \in SeqsUpTo(items, MaxPapers) :
          /\ l # <<>>
          /\ arxiv = Done([kind |-> "ok", exc |-> "", items |-> l])
          /\ all_papers = ValidPapers(l)
    /\ crossref = Done([kind |-> "ok", exc |-> "", items |-> <<>>])
    /\ unique = <<>>
    /\ selected = <<>>
    /\ attempts = <<>>
    /\ llm = None
    /\ genCalls = 0
    /\ failure = None
    /\ text = None
    /\ response = None

FnInit == FnInitWith(RichItems, TopKs)

FnNext ==
    \/ Deduplicate
    \/ RankAndSelect

FnSpec == FnInit /\ [][FnNext]_vars

(***************************************************************************)
(* The title-similarity phase of deduplicate_papers on DOI-less papers     *)
(* whose titles form a chain of near-duplicates: ten tokens, nine of them, *)
(* and the nine with an eleventh.                                          *)
(***************************************************************************)
TitleTen ==
    <<"A", " ", "b", " ", "c", " ", "d", " ", "e", " ", "f", " ", "h", " ", "i", " ",
      "j", " ", "k">>
TitleNine ==
    <<"a", " ", "b", " ", "c", " ", "d", " ", "e", " ", "f", " ", "h", " ", "i", " ", "j">>
TitleNinePlus ==
    <<"a", " ", "b", " ", "c", " ", "d", " ", "e", " ", "f", " ", "h", " ", "i", " ",
      "j", " ", "m">>
\* the ten tokens again, in another order, case and punctuation
TitleTenAgain ==
    <<"K", ",", "j", " ", "i", " ", "h", " ", "f", " ", "e", "-", "d", " ", "c", " ",
      "b", " ", "a", "!">>

TitleItems ==
    { RichItem("t1", TitleTen, <<>>, Some(2020), None),
      RichItem("t2", TitleNine, <<>>, Some(2021), None),
      RichItem("t3", TitleNinePlus, <<>>, Some(2022), Some(<<>>)),
      RichItem("t4", TitleTenAgain, <<>>, None, None),
      RichItem("t5", <<"z">>, <<>>, None, None) }

TitleInit == FnInitWith(TitleItems, {None, Some(2)})

TitleSpec == TitleInit /\ [][FnNext]_vars

(***************************************************************************)
(* get_default_llm_provider on every preference, default and credential:   *)
(* the pipeline from the point where synthesize_report is called, nothing  *)
(* having been retrieved.                                                  *)
(***************************************************************************)
FactoryChoices ==
    {None, Some(<<>>), Some(NameOpenAIMixed), Some(NameTogether), Some(NameOllamaUpper),
     Some(NameUnknown)}

FactorySettings ==
    [default_llm_provider : {None, Some(<<>>), Some(NameOpenAI), Some(NameTogether),
                             Some(NameOllama), Some(NameUnknown)},
     openai_api_key : {None, Some(""), Some("sk")},
     together_api_key : {None, Some(""), Some("tk")},
     openai_package : BOOLEAN]

FactoryInit ==
    /\ pc = "synthesize"
    /\ settings \in FactorySettings
    /\ query \in Queries
    /\ top_k = None
    /\ provider_choice \in FactoryChoices
    /\ \E e \in NetworkErrors :
          /\ arxiv = Done([kind |-> "error", exc |-> e, items |-> <<>>])
          /\ crossref = Done([kind |-> "error", exc |-> e, items |-> <<>>])
    /\ all_papers = <<>>
    /\ unique = <<>>
    /\ selected = <<>>
    /\ attempts = <<>>
    /\ llm = None
    /\ genCalls = 0
    /\ failure = None
    /\ text = None
    /\ response = None

FactoryNext ==
    \/ SynthesizeStart
    \/ GenerateReturns
    \/ GenerateRaises
    \/ Respond

FactorySpec == FactoryInit /\ [][FactoryNext]_vars

(***************************************************************************)
(* Properties                                                              *)
(***************************************************************************)
BothSourcesFailed == arxiv.result.kind = "error" /\ crossref.result.kind = "error"

ExpectedPapers(task) ==
    IF task.result.kind = "ok"
    THEN LET valid == SelectSeq(task.result.items, PaperValid)
         IN  [i \in 1..Len(valid) |-> Paper(valid[i])]
    ELSE <<>>

\* C2: both queries are issued, and retrieve_sources continues only when both
\* have completed; its result is exactly the valid records of the sources that
\* succeeded, arXiv's first, a failed source contributing none.
C2_BothOutcomesCollected ==
    /\ pc # "start" => arxiv.state \in {"pending", "done"} /\ crossref.state \in {"pending", "done"}
    /\ pc \notin {"start", "gather"} =>
          /\ arxiv.state = "done"
          /\ crossref.state = "done"
          /\ all_papers = ExpectedPapers(arxiv) \o ExpectedPapers(crossref)

\* C2 witness: arXiv failed, and Crossref's records were still collected
C2_Witness ==
    /\ pc = "retrieved"
    /\ arxiv.result.kind = "error"
    /\ crossref.result.kind = "ok"
    /\ Len(all_papers) = 2

C3_Recovered ==
    /\ genCalls <= 1
    /\ failure # None =>
          /\ pc \in {"respond", "returned"}
          /\ text = Some(synthesize_fallback(query, selected))
          /\ pc = "returned" => response[1].report_markdown = synthesize_fallback(query, selected)

\* C3: after a failure of the factory or of generate the report is
\* synthesize_fallback(query, selected); generate is called at most once, and
\* once a failure is caught no provider is constructed and no generate call made.
C3_SingleRecoveryPath ==
    /\ []C3_Recovered
    /\ [][failure # None => (attempts' = attempts /\ llm' = llm /\ genCalls' = genCalls)]_vars

\* C3 witness: the auto-detected local provider's generate failed on a
\* non-empty selection
C3_Witness ==
    /\ pc = "returned"
    /\ failure # None
    /\ failure[1].stage = "generation"
    /\ attempts = <<"openai", "together", "ollama">>
    /\ Len(selected) >= 2

\* C4: with both sources failing the response has num_sources = 0, no
\* citations, no selected papers, and a non-empty report.
C4_BothSourcesFailing ==
    (pc = "returned" /\ BothSourcesFailed) =>
        /\ response[1].num_sources = 0
        /\ response[1].citations = <<>>
        /\ response[1].selected = <<>>
        /\ response[1].report_markdown # <<>>

\* C5: in every response citations and selected have the same length,
\* num_sources is that length, and the i-th citation has index i and the
\* title, authors, year, doi and source of the i-th selected paper.
C5_CitationsParallel ==
    pc = "returned" =>
        LET r == response[1] IN
        /\ Len(r.citations) = Len(r.selected)
        /\ r.num_sources = Len(r.selected)
        /\ \A i \in 1..Len(r.selected) :
              /\ r.citations[i].index = i
              /\ r.citations[i].title = r.selected[i].title
              /\ r.citations[i].authors = r.selected[i].authors
              /\ r.citations[i].year = r.selected[i].year
              /\ r.citations[i].doi = r.selected[i].doi
              /\ r.citations[i].source = r.selected[i].source

\* C5 witness: a response with papers of both sources selected
C5_Witness ==
    /\ pc = "returned"
    /\ Len(response[1].selected) >= 3
    /\ \E i, j \in 1..Len(response[1].selected) :
          response[1].selected[i].source # response[1].selected[j].source

\* C6: rank_and_select returns no more than top_k papers and no more than it
\* was given.
C6_SelectionBounded ==
    pc = "synthesize" =>
        /\ Len(selected) <= top_k_effective
        /\ Len(selected) <= Len(unique)

\* the DOI key of a paper that has a DOI
HasDoi(p) == p.doi # None /\ p.doi[1] # <<>>
DoiIndices(papers, k) == {i \in 1..Len(papers) : HasDoi(papers[i]) /\ DoiKey(papers[i]) = k}
DoiKeys(papers) == {DoiKey(papers[i]) : i \in {j \in 1..Len(papers) : HasDoi(papers[j])}}
\* the earliest paper among those of key k with the longest abstract
EarliestLongest(papers, k) ==
    CHOOSE i \in DoiIndices(papers, k) :
        /\ \A j \in DoiIndices(papers, k) : Len(papers[j].abstract) <= Len(papers[i].abstract)
        /\ \A j \in DoiIndices(papers, k) :
              Len(papers[j].abstract) = Len(papers[i].abstract) => i <= j

Resolved == IF TruthyStr(provider_choice) THEN provider_choice ELSE settings.default_llm_provider
NamedVariant ==
    IF ~TruthyStr(Resolved) THEN None
    ELSE IF Lower(Resolved[1]) = NameOpenAI THEN Some("openai")
    ELSE IF Lower(Resolved[1]) = NameTogether THEN Some("together")
    ELSE IF Lower(Resolved[1]) = NameOllama THEN Some("ollama")
    ELSE None

\* C8: with a resolved name that is "openai", "together" or "ollama" in any
\* case, exactly that variant is constructed and returned; if it does not
\* construct the error reaches the caller and no other variant is tried.
C8_NamedVariantOnly ==
    (pc # "synthesize" /\ NamedVariant # None) =>
        /\ attempts = NamedVariant
        /\ IF Constructs(NamedVariant[1], settings)
           THEN llm = NamedVariant /\ (failure # None => failure[1].stage = "generation")
           ELSE /\ llm = None
                /\ genCalls = 0
                /\ failure = Some([stage |-> "construction", exc |-> "RuntimeError"])

\* C8 witness: "OpenAI" requested without an OpenAI key while a Together key
\* is configured
C8_Witness ==
    /\ pc # "synthesize"
    /\ provider_choice = Some(NameOpenAIMixed)
    /\ settings.openai_api_key = None
    /\ settings.together_api_key = Some("tk")
    /\ llm = None

\* C9: with no resolved name OpenAI, Together and the local-host variant are
\* attempted in that order and the first that constructs is returned; the
\* factory never raises, and without both credentials returns the local-host one.
C9_AutoDetectOrder ==
    (pc # "synthesize" /\ ~TruthyStr(Resolved)) =>
        /\ attempts # <<>>
        /\ attempts = SubSeq(<<"openai", "together", "ollama">>, 1, Len(attempts))
        /\ llm = Some(attempts[Len(attempts)])
        /\ Constructs(attempts[Len(attempts)], settings)
        /\ \A i \in 1..(Len(attempts) - 1) : ~Constructs(attempts[i], settings)
        /\ failure # None => failure[1].stage = "generation"
        /\ (~TruthyText(settings.openai_api_key) /\ ~TruthyText(settings.together_api_key))
              => llm = Some("ollama")

\* C9 witness: no preference, no default, no credential: the local-host provider
C9_Witness ==
    /\ pc # "synthesize"
    /\ ~TruthyStr(Resolved)
    /\ settings.openai_api_key = None
    /\ settings.together_api_key = None
    /\ attempts = <<"openai", "together", "ollama">>
    /\ llm = Some("ollama")

\* the position of unique[i] in the stable descending order: after every
\* paper of higher score and every earlier paper of equal score
StableRank(q, papers, i) ==
    1 + Cardinality({j \in 1..Len(papers) :
            \/ score_paper(q, papers[j]) > score_paper(q, papers[i])
            \/ score_paper(q, papers[j]) = score_paper(q, papers[i]) /\ j < i})
StableOrder(q, papers) ==
    [r \in 1..Len(papers) |-> papers[CHOOSE i \in 1..Len(papers) : StableRank(q, papers, i) = r]]
FirstK(s, k) == SubSeq(s, 1, Min(k, Len(s)))

\* C10: rank_and_select returns the first top_k papers of the stable
\* descending order by score.
C10_FirstTopKOfStableOrder ==
    pc = "synthesize" => selected = FirstK(StableOrder(query, unique), top_k_effective)

\* the part of C10 that holds for every top_k: the result is the slice
\* [:top_k] of the stable descending order
RankStableOrder ==
    pc = "synthesize" => selected = SliceTo(StableOrder(query, unique), top_k_effective)

\* the papers without a DOI, in order
WithoutDoi(papers) == SelectSeq(papers, LAMBDA p : ~HasDoi(p))
Similar(p, q) == jaccard_at_least_09(tokenize(p.title), tokenize(q.title))
\* the DOI-less papers kept when each is compared with the papers kept before it
RECURSIVE KeptAgainstKept(_, _)
KeptAgainstKept(without_doi, kept) ==
    Eval(kept, LAMBDA v :
        IF without_doi = <<>> THEN v
        ELSE KeptAgainstKept(Tail(without_doi),
                 IF \E j \in 1..Len(v) : Similar(Head(without_doi), v[j]) THEN v
                 ELSE Append(v, Head(without_doi))))

\* C11: the DOI-less papers deduplicate_papers keeps are those not similar
\* (Jaccard >= 0.90 over normalized-title tokens) to an earlier kept DOI-less
\* paper; a paper similar only to earlier dropped papers is kept.
C11_ComparedAgainstKept ==
    pc \in {"rank", "synthesize"} =>
        WithoutDoi(unique) = KeptAgainstKept(WithoutDoi(all_papers), <<>>)

\* what the code keeps: the DOI-less papers not similar to any earlier
\* DOI-less paper of the input, kept or dropped
TitleComparedAgainstAllEarlier ==
    pc \in {"rank", "synthesize"} =>
        LET w == WithoutDoi(all_papers) IN
        LET k == SelectSeq([i \in 1..Len(w) |-> [at |-> i, paper |-> w[i]]],
                           LAMBDA e : \A j \in 1..(e.at - 1) : ~Similar(e.paper, w[j]))
        IN  WithoutDoi(unique) = [i \in 1..Len(k) |-> k[i].paper]

\* C12: with a resolved name that is non-empty and is none of "openai",
\* "together", "ollama" in any case, the factory does not raise and does not
\* consult the default behind an unknown preferred name: it attempts OpenAI,
\* Together and the local-host variant in order and returns the first that
\* constructs.
C12_UnknownNameAutoDetects ==
    (pc # "synthesize" /\ TruthyStr(Resolved) /\ NamedVariant = None) =>
        /\ attempts # <<>>
        /\ attempts = SubSeq(<<"openai", "together", "ollama">>, 1, Len(attempts))
        /\ llm = Some(attempts[Len(attempts)])
        /\ Constructs(attempts[Len(attempts)], settings)
        /\ \A i \in 1..(Len(attempts) - 1) : ~Constructs(attempts[i], settings)
        /\ failure # None => failure[1].stage = "generation"

\* C12 witness: an unknown preferred name in front of the default "together",
\* no Together key, an OpenAI key: the OpenAI provider is returned
C12_Witness ==
    /\ pc # "synthesize"
    /\ provider_choice = Some(NameUnknown)
    /\ settings.default_llm_provider = Some(NameTogether)
    /\ settings.together_api_key = None
    /\ settings.openai_api_key = Some("sk")
    /\ settings.openai_package
    /\ attempts = <<"openai">>
    /\ llm = Some("openai")

====
